---- MODULE Spec2Model ----
(***************************************************************************)
(* The Tab view of floem (src/views/tab.rs): a keyed list of child views   *)
(* of which only the one at the active index takes part in event and paint *)
(* traversals.  Two reactive effects post state payloads (an edit script,  *)
(* an active index) to the Tab's id; Tab::update applies them.             *)
(*                                                                         *)
(* Indices are 0-based as in the Rust source; a TLA+ sequence s models a   *)
(* Vec and s[i + 1] is the source's s[i].  Option<T> is a sequence of      *)
(* length 0 (None) or 1 (Some).                                            *)
(***************************************************************************)
EXTENDS Integers, Sequences, FiniteSets, TLC

\* ------------------------------------------------------------------ bounds
NumKeys == 3
MaxLen == 2
MaxActive == 2
MaxQueue == 2
MaxViews == 3

Keys == 1..NumKeys

\* An item T of the item source: what key_fn reads off it, and the rest.
Items == Keys \X {"item"}

\* key_fn: the key of an item.
key_fn(item) == item[1]

None == <<>>
Some(x) == <<x>>

\* The Id of the Tab (cx.new_id()); child views get the ids 1, 2, ...
TabId == 0

RECURSIVE SeqsUpTo(_, _)
SeqsUpTo(S, n) ==
    IF n = 0 THEN {<<>>}
    ELSE LET shorter == SeqsUpTo(S, n - 1)
         IN  shorter \cup {Append(s, x) : s \in {t \in shorter : Len(t) = n - 1}, x \in S}

Contains(s, k) == \E i \in 1..Len(s) : s[i] = k

\* Every sequence of items each_fn() may yield, duplicate keys included.
AllSources == SeqsUpTo(Items, MaxLen)

\* The sequences of items whose keys are pairwise distinct.
UniqueSources ==
    {s \in AllSources : \A i, j \in 1..Len(s) : key_fn(s[i]) = key_fn(s[j]) => i = j}

\* items.iter().map(&key_fn)
MapKeys(items) == [i \in 1..Len(items) |-> key_fn(items[i])]

\* collect::<FxIndexSet<_>>(): insertion order, a repeated key is dropped.
RECURSIVE CollectIndexSet(_)
CollectIndexSet(ks) ==
    IF ks = <<>> THEN <<>>
    ELSE LET front == CollectIndexSet(SubSeq(ks, 1, Len(ks) - 1))
             last == ks[Len(ks)]
         IN  IF Contains(front, last) THEN front ELSE Append(front, last)

\* IndexSet::get_full: the (0-based) index of a key that the set holds.
GetFull(set, k) == CHOOSE i \in 0..(Len(set) - 1) : set[i + 1] = k

RECURSIVE Ascending(_)
Ascending(S) ==
    IF S = {} THEN <<>>
    ELSE LET m == CHOOSE x \in S : \A y \in S : x <= y
         IN  <<m>> \o Ascending(S \ {m})

\* Diff::default(): the empty edit script.
DiffDefault == [removed |-> <<>>, moved |-> <<>>, added |-> <<>>]

\* diff(from, to): the edit script from one keyed set to the next.  Removed
\* entries carry the index in `from`, Added entries the index in `to`, Moved
\* entries both; each list is ascending (Moved by its new index).
Diff(from, to) ==
    LET rem == Ascending({i \in 0..(Len(from) - 1) : ~Contains(to, from[i + 1])})
        add == Ascending({i \in 0..(Len(to) - 1) : ~Contains(from, to[i + 1])})
        mov == Ascending({i \in 0..(Len(to) - 1) :
                            /\ Contains(from, to[i + 1])
                            /\ GetFull(from, to[i + 1]) # i})
    IN  [removed |-> [j \in 1..Len(rem) |-> [at |-> rem[j]]],
         moved |-> [j \in 1..Len(mov) |-> [from |-> GetFull(from, to[mov[j] + 1]),
                                            to |-> mov[j]]],
         added |-> [j \in 1..Len(add) |-> [at |-> add[j], view |-> None]]]

\* One call a handler makes to a collaborator: the callee, the id of the view
\* or scope it is made on, and the value passed or returned ("" when none).
Ev(e, v, out) == [e |-> e, v |-> v, out |-> out]

\* A child slot's content: the view view_fn built from `item` and the
\* disposal handle of the scope it was built in.
NewChild(item, id) == [view |-> id, scope |-> id, item |-> item]

Max(a, b) == IF a >= b THEN a ELSE b

\* Vec::resize_with(n, || None) when n exceeds the length.
Pad(children, n) == children \o [i \in 1..(n - Len(children)) |-> None]

\* Removed entries: the slot at the recorded position is emptied and its
\* disposal handle run at once.  st = [ok, arr, trace, next, held].
RECURSIVE ApplyRemoved(_, _)
ApplyRemoved(st, removed) ==
    IF removed = <<>> \/ ~st.ok THEN st
    ELSE LET at == Head(removed).at + 1
             st1 == IF at > Len(st.arr) THEN [st EXCEPT !.ok = FALSE]
                    ELSE IF st.arr[at] = None THEN st
                    ELSE [st EXCEPT !.arr[at] = None,
                                    !.trace = Append(@, Ev("dispose", st.arr[at][1].scope, ""))]
         IN  ApplyRemoved(st1, Tail(removed))

\* Moved entries, first half: the slot is taken out of its old position.
RECURSIVE TakeMoved(_, _)
TakeMoved(st, moved) ==
    IF moved = <<>> \/ ~st.ok THEN st
    ELSE LET from == Head(moved).from + 1
             st1 == IF from > Len(st.arr) \/ Head(moved).to + 1 > Len(st.arr)
                    THEN [st EXCEPT !.ok = FALSE]
                    ELSE IF st.arr[from] = None THEN [st EXCEPT !.ok = FALSE]
                    ELSE [st EXCEPT !.arr[from] = None,
                                    !.held = Append(@, [to |-> Head(moved).to,
                                                        slot |-> st.arr[from]])]
         IN  TakeMoved(st1, Tail(moved))

\* Added entries: view_fn builds the child from the entry's item and the
\* pair goes to the target position.
RECURSIVE ApplyAdded(_, _)
ApplyAdded(st, added) ==
    IF added = <<>> \/ ~st.ok THEN st
    ELSE LET at == Head(added).at + 1
             view == Head(added).view
             st1 == IF at > Len(st.arr) THEN [st EXCEPT !.ok = FALSE]
                    ELSE IF view = None THEN [st EXCEPT !.arr[at] = None]
                    ELSE [st EXCEPT !.arr[at] = Some(NewChild(view[1], st.next)),
                                    !.trace = Append(@, Ev("view_fn", st.next, "")),
                                    !.next = @ + 1]
         IN  ApplyAdded(st1, Tail(added))

\* Moved entries, second half: the taken slot goes to its new position,
\* the same (view, disposer) pair.
RECURSIVE PutMoved(_, _)
PutMoved(st, held) ==
    IF held = <<>> THEN st
    ELSE PutMoved([st EXCEPT !.arr[Head(held).to + 1] = Head(held).slot], Tail(held))

IsSome(slot) == slot # None

\* apply_diff(app_state, diff, &mut children, &view_fn): Removed, then Moved,
\* then Added; the emptied positions are dropped at the end.
ApplyDiff(diff, children, next) ==
    LET n0 == Len(children)
        w == Max(n0, n0 + Len(diff.added) - Len(diff.removed))
        st0 == [ok |-> TRUE, arr |-> Pad(children, w), trace |-> <<>>,
                next |-> next, held |-> <<>>]
        st1 == ApplyRemoved(st0, diff.removed)
        st2 == TakeMoved(st1, diff.moved)
        st3 == ApplyAdded(st2, diff.added)
        st4 == IF st3.ok THEN PutMoved(st3, st3.held) ELSE st3
    IN  [ok |-> st4.ok,
         children |-> IF st4.ok THEN SelectSeq(st4.arr, IsSome) ELSE children,
         trace |-> st4.trace,
         next |-> st4.next]

\* --------------------------------------------------------------- the state
VARIABLES
    prev_hash_run,  \* the sequence effect's previous return value: None or Some(HashRun)
    queue,          \* state payloads posted to the Tab's id and not yet delivered
    children,       \* Tab.children: Vec<Option<(V, ScopeDisposer)>>
    active,         \* Tab.active
    disposals,      \* disposals[v]: how often the disposal handle of child v has run
    crashed,        \* a panic has unwound the traversal
    current,        \* the id of the ambient AppContext (AppContext::get_current().id)
    last,           \* the handler that ran last
    ret,            \* what it returned
    trace           \* the calls the last handler made to its collaborators, in order

vars == <<prev_hash_run, queue, children, active, disposals, crashed, current,
          last, ret, trace>>

\* The three kinds of Box<dyn Any> that can reach Tab::update: the two
\* variants of TabState<T> and anything else.  `prev`, `items` and `run` are
\* history: what the effect run that built the script received as its
\* previous value, what each_fn() yielded, and the keyed set it returned.
DiffState(diff, prev, items, run) ==
    [kind |-> "Diff", diff |-> diff, active |-> 0,
     prev |-> prev, items |-> items, run |-> run]
ActiveState(a) ==
    [kind |-> "Active", diff |-> DiffDefault, active |-> a,
     prev |-> None, items |-> <<>>, run |-> <<>>]
OtherState ==
    [kind |-> "Other", diff |-> DiffDefault, active |-> 0,
     prev |-> None, items |-> <<>>, run |-> <<>>]

\* The id of the context tab() is called in, which is the ambient context
\* of every traversal; no child view has it.
OuterId == MaxViews + 1

\* tab(): the Tab as constructed, before either effect has run.
Init ==
    /\ prev_hash_run = None
    /\ queue = <<>>
    /\ children = <<>>
    /\ active = 0
    /\ disposals = <<>>
    /\ crashed = FALSE
    /\ current = OuterId
    /\ last = "tab"
    /\ ret = "unit"
    /\ trace = <<>>

\* EffectDiff with the two keyed sets handed to diff() in the wrong order.
EffectDiffSwapped(prev, items, again, hashed_items) ==
    IF prev # None
    THEN LET cmds == Diff(hashed_items, prev[1])
         IN  [cmds EXCEPT !.added =
                 [j \in 1..Len(cmds.added) |->
                     [at |-> cmds.added[j].at,
                      view |-> IF cmds.added[j].at < Len(items)
                               THEN Some(items[cmds.added[j].at + 1])
                               ELSE None]]]
    ELSE [DiffDefault EXCEPT !.added =
             [i \in 1..Len(again) |-> [at |-> i - 1, view |-> Some(again[i])]]]

\* EffectDiff that never looks at the previous keyed set: every run is a
\* bootstrap run.
EffectDiffAlwaysBootstrap(prev, items, again, hashed_items) ==
    [DiffDefault EXCEPT !.added =
        [i \in 1..Len(again) |-> [at |-> i - 1, view |-> Some(again[i])]]]

\* EffectDiff that throws every previous child away and builds every
\* current one anew instead of diffing.
EffectDiffRebuild(prev, items, again, hashed_items) ==
    IF prev # None
    THEN [removed |-> [j \in 1..Len(prev[1]) |-> [at |-> j - 1]],
          moved |-> <<>>,
          added |-> [i \in 1..Len(items) |-> [at |-> i - 1, view |-> Some(items[i])]]]
    ELSE [DiffDefault EXCEPT !.added =
             [i \in 1..Len(again) |-> [at |-> i - 1, view |-> Some(again[i])]]]

\* EffectDiff whose bootstrap branch numbers the entries from 1.
EffectDiffOffByOne(prev, items, again, hashed_items) ==
    IF prev # None
    THEN LET cmds == Diff(prev[1], hashed_items)
         IN  [cmds EXCEPT !.added =
                 [j \in 1..Len(cmds.added) |->
                     [at |-> cmds.added[j].at,
                      view |-> Some(items[cmds.added[j].at + 1])]]]
    ELSE [DiffDefault EXCEPT !.added =
             [i \in 1..Len(again) |-> [at |-> i, view |-> Some(again[i])]]]

\* EffectDiff that hands the j-th Added entry the j-th item instead of the
\* item at the entry's target index.
EffectDiffTakeByOrdinal(prev, items, again, hashed_items) ==
    IF prev # None
    THEN LET cmds == Diff(prev[1], hashed_items)
         IN  [cmds EXCEPT !.added =
                 [j \in 1..Len(cmds.added) |->
                     [at |-> cmds.added[j].at, view |-> Some(items[j])]]]
    ELSE [DiffDefault EXCEPT !.added =
             [i \in 1..Len(again) |-> [at |-> i - 1, view |-> Some(again[i])]]]

\* The body of the sequence effect up to the edit script: `items` is the
\* first each_fn() call collected, `again` the second call the bootstrap
\* branch makes, `hashed_items` the keyed set of `items`.
EffectDiff(prev, items, again, hashed_items) ==
    IF prev # None
    THEN LET cmds == Diff(prev[1], hashed_items)
         IN  [cmds EXCEPT !.added =
                 [j \in 1..Len(cmds.added) |->
                     [at |-> cmds.added[j].at,
                      view |-> Some(items[cmds.added[j].at + 1])]]]
    ELSE [DiffDefault EXCEPT !.added =
             [i \in 1..Len(again) |-> [at |-> i - 1, view |-> Some(again[i])]]]

\* The views the scripts still in the queue will construct.
RECURSIVE PendingAdded(_)
PendingAdded(q) ==
    IF q = <<>> THEN 0 ELSE Len(Head(q).diff.added) + PendingAdded(Tail(q))

\* SequenceEffect that posts nothing when the script is empty.
SequenceEffectSkipEmpty(items) ==
    LET hashed_items == CollectIndexSet(MapKeys(items))
        diff == EffectDiff(prev_hash_run, items, items, hashed_items)
        empty == diff.removed = <<>> /\ diff.moved = <<>> /\ diff.added = <<>>
    IN  /\ ~crashed
        /\ Len(queue) < MaxQueue
        /\ Len(disposals) + PendingAdded(queue) + Len(diff.added) <= MaxViews
        /\ queue' = IF empty THEN queue
                    ELSE Append(queue, DiffState(diff, prev_hash_run, items, hashed_items))
        /\ prev_hash_run' = Some(hashed_items)
        /\ last' = "sequence_effect"
        /\ ret' = "unit"
        /\ trace' = IF empty THEN <<>> ELSE <<Ev("update_state", TabId, "Diff")>>
        /\ UNCHANGED <<children, active, disposals, crashed, current>>

\* One run of the sequence effect: each_fn() yields `items`.
SequenceEffect(items) ==
    LET hashed_items == CollectIndexSet(MapKeys(items))
        diff == EffectDiff(prev_hash_run, items, items, hashed_items)
    IN  /\ ~crashed
        /\ Len(queue) < MaxQueue
        /\ Len(disposals) + PendingAdded(queue) + Len(diff.added) <= MaxViews
        /\ queue' = Append(queue, DiffState(diff, prev_hash_run, items, hashed_items))
        /\ prev_hash_run' = Some(hashed_items)
        /\ last' = "sequence_effect"
        /\ ret' = "unit"
        /\ trace' = <<Ev("update_state", TabId, "Diff")>>
        /\ UNCHANGED <<children, active, disposals, crashed, current>>

\* One run of the active-index effect: active_fn() yields `a`.
ActiveEffect(a) ==
    /\ ~crashed
    /\ Len(queue) < MaxQueue
    /\ queue' = Append(queue, ActiveState(a))
    /\ last' = "active_effect"
    /\ ret' = "unit"
    /\ trace' = <<Ev("active_fn", TabId, ToString(a)),
                  Ev("update_state", TabId, "Active")>>
    /\ UNCHANGED <<prev_hash_run, children, active, disposals, crashed, current>>

\* Some other state machine posts a payload of another type to the same id.
ForeignState ==
    /\ ~crashed
    /\ Len(queue) < MaxQueue
    /\ queue' = Append(queue, OtherState)
    /\ last' = "foreign_state"
    /\ ret' = "unit"
    /\ trace' = <<>>
    /\ UNCHANGED <<prev_hash_run, children, active, disposals, crashed, current>>

\* The disposal handles a handler ran, counted per child.
RECURSIVE CountDisposals(_, _)
CountDisposals(disp, tr) ==
    IF tr = <<>> THEN disp
    ELSE CountDisposals(IF Head(tr).e = "dispose"
                        THEN [disp EXCEPT ![Head(tr).v] = @ + 1]
                        ELSE disp,
                        Tail(tr))

\* for (child, _) in self.children.iter().flatten() { cx.request_layout(child.id()) }
RequestChildren(ch) ==
    LET present == SelectSeq(ch, IsSome)
    IN  [i \in 1..Len(present) |-> Ev("request_layout", present[i][1].view, "")]

\* AppContext::save, set_current and restore as a handler's calls come by:
\* save pushes the current context, restore pops it back; cx = [current, saved].
RECURSIVE AmbientAfter(_, _)
AmbientAfter(cx, tr) ==
    IF tr = <<>> THEN cx
    ELSE LET c == Head(tr)
             cx1 == CASE c.e = "save" ->
                            [cx EXCEPT !.saved = Append(@, cx.current)]
                      [] c.e = "set_current" ->
                            [cx EXCEPT !.current = c.v]
                      [] c.e = "restore" /\ cx.saved # <<>> ->
                            [current |-> cx.saved[Len(cx.saved)],
                             saved |-> SubSeq(cx.saved, 1, Len(cx.saved) - 1)]
                      [] OTHER -> cx
         IN  AmbientAfter(cx1, Tail(tr))

\* UpdateDiff that leaves the Tab's context current: no restore.
UpdateDiffNoRestore(diff, ch, next) ==
    LET r == ApplyDiff(diff, ch, next)
    IN  [r EXCEPT !.trace = <<Ev("save", TabId, ""), Ev("set_current", TabId, "")>>
                            \o @]

\* The TabState::Diff arm of Tab::update: apply_diff under the Tab's own
\* AppContext, between save and restore.
UpdateDiff(diff, ch, next) ==
    LET r == ApplyDiff(diff, ch, next)
    IN  [r EXCEPT !.trace = <<Ev("save", TabId, ""), Ev("set_current", TabId, "")>>
                            \o @ \o <<Ev("restore", TabId, "")>>]

\* TabUpdate without the downcast test: a payload of another type is
\* answered like an accepted one.
TabUpdateNoDowncast(state, ch, act, disp) ==
    [ok |-> TRUE, children |-> ch,
     active |-> IF state.kind = "Active" THEN state.active ELSE act,
     disposals |-> disp, ret |-> "LAYOUT",
     trace |-> <<Ev("request_layout", TabId, "")>> \o RequestChildren(ch)]

\* TabUpdate that skips the layout request when an Active payload repeats
\* the stored index.
TabUpdateSkipSame(state, ch, act, disp) ==
    IF state.kind = "Other" \/ (state.kind = "Active" /\ state.active = act)
    THEN [ok |-> TRUE, children |-> ch, active |-> act, disposals |-> disp,
          ret |-> "empty", trace |-> <<>>]
    ELSE LET r == IF state.kind = "Diff"
                  THEN UpdateDiff(state.diff, ch, Len(disp) + 1)
                  ELSE [ok |-> TRUE, children |-> ch, trace |-> <<>>,
                        next |-> Len(disp) + 1]
             built == r.next - (Len(disp) + 1)
         IN  [ok |-> r.ok,
              children |-> r.children,
              active |-> IF state.kind = "Active" THEN state.active ELSE act,
              disposals |-> CountDisposals(disp, r.trace) \o [i \in 1..built |-> 0],
              ret |-> "LAYOUT",
              trace |-> r.trace \o <<Ev("request_layout", TabId, "")>>
                        \o RequestChildren(r.children)]

\* TabUpdate that pulls the active index back to slot 0 when a script
\* leaves it past the end of the slots.
TabUpdateClamp(state, ch, act, disp) ==
    IF state.kind = "Other"
    THEN [ok |-> TRUE, children |-> ch, active |-> act, disposals |-> disp,
          ret |-> "empty", trace |-> <<>>]
    ELSE LET r == IF state.kind = "Diff"
                  THEN UpdateDiff(state.diff, ch, Len(disp) + 1)
                  ELSE [ok |-> TRUE, children |-> ch, trace |-> <<>>,
                        next |-> Len(disp) + 1]
             built == r.next - (Len(disp) + 1)
         IN  [ok |-> r.ok,
              children |-> r.children,
              active |-> IF state.kind = "Active" THEN state.active
                         ELSE IF act < Len(r.children) THEN act ELSE 0,
              disposals |-> CountDisposals(disp, r.trace) \o [i \in 1..built |-> 0],
              ret |-> "LAYOUT",
              trace |-> r.trace \o <<Ev("request_layout", TabId, "")>>
                        \o RequestChildren(r.children)]

\* Tab::update(cx, state) on the Tab's fields; `disp` holds the disposal
\* counts of every child constructed so far.
TabUpdate(state, ch, act, disp) ==
    IF state.kind = "Other"
    THEN [ok |-> TRUE, children |-> ch, active |-> act, disposals |-> disp,
          ret |-> "empty", trace |-> <<>>]
    ELSE LET r == IF state.kind = "Diff"
                  THEN UpdateDiff(state.diff, ch, Len(disp) + 1)
                  ELSE [ok |-> TRUE, children |-> ch, trace |-> <<>>,
                        next |-> Len(disp) + 1]
             built == r.next - (Len(disp) + 1)
         IN  [ok |-> r.ok,
              children |-> r.children,
              active |-> IF state.kind = "Active" THEN state.active ELSE act,
              disposals |-> CountDisposals(disp, r.trace) \o [i \in 1..built |-> 0],
              ret |-> "LAYOUT",
              trace |-> r.trace \o <<Ev("request_layout", TabId, "")>>
                        \o RequestChildren(r.children)]

\* The tree-update traversal delivers the oldest pending payload.
Update ==
    /\ ~crashed
    /\ queue # <<>>
    /\ LET u == TabUpdate(Head(queue), children, active, disposals)
       IN  /\ crashed' = ~u.ok
           /\ children' = u.children
           /\ active' = u.active
           /\ disposals' = u.disposals
           /\ ret' = u.ret
           /\ trace' = u.trace
           /\ current' = AmbientAfter([current |-> current, saved |-> <<>>],
                                      u.trace).current
    /\ queue' = Tail(queue)
    /\ last' = CASE Head(queue).kind = "Diff" -> "update_diff"
                 [] Head(queue).kind = "Active" -> "update_active"
                 [] OTHER -> "update_other"
    /\ UNCHANGED prev_hash_run

\* TabLayout with the test on the active index inverted.
RECURSIVE TabLayoutInverted(_, _, _)
TabLayoutInverted(ch, act, i) ==
    IF i >= Len(ch) THEN <<>>
    ELSE IF ch[i + 1] = None THEN TabLayoutInverted(ch, act, i + 1)
    ELSE LET child_id == ch[i + 1][1].view
         IN  <<Ev("display", child_id, IF i = act THEN "None" ELSE "Flex"),
               Ev("layout_main", child_id, "")>>
             \o TabLayoutInverted(ch, act, i + 1)

\* TabLayout that lays a child out first and sets its display afterwards.
RECURSIVE TabLayoutThenDisplay(_, _, _)
TabLayoutThenDisplay(ch, act, i) ==
    IF i >= Len(ch) THEN <<>>
    ELSE IF ch[i + 1] = None THEN TabLayoutThenDisplay(ch, act, i + 1)
    ELSE LET child_id == ch[i + 1][1].view
         IN  <<Ev("layout_main", child_id, ""),
               Ev("display", child_id, IF i # act THEN "None" ELSE "Flex")>>
             \o TabLayoutThenDisplay(ch, act, i + 1)

\* Tab::layout: every present child gets its display set from the active
\* index and is laid out, in slot order; `i` is the slot the iteration is at.
RECURSIVE TabLayout(_, _, _)
TabLayout(ch, act, i) ==
    IF i >= Len(ch) THEN <<>>
    ELSE IF ch[i + 1] = None THEN TabLayout(ch, act, i + 1)
    ELSE LET child_id == ch[i + 1][1].view
         IN  <<Ev("display", child_id, IF i # act THEN "None" ELSE "Flex"),
               Ev("layout_main", child_id, "")>>
             \o TabLayout(ch, act, i + 1)

\* Layout that pulls an out-of-range active index back to slot 0.
LayoutClampsActive ==
    /\ ~crashed
    /\ trace' = TabLayout(children, active, 0)
    /\ active' = IF active < Len(children) THEN active ELSE 0
    /\ last' = "layout"
    /\ ret' = "node"
    /\ UNCHANGED <<prev_hash_run, queue, children, disposals, crashed, current>>

Layout ==
    /\ ~crashed
    /\ trace' = TabLayout(children, active, 0)
    /\ last' = "layout"
    /\ ret' = "node"
    /\ UNCHANGED <<prev_hash_run, queue, children, active, disposals, crashed, current>>

\* TabComputeLayout that skips the hidden children.
TabComputeLayoutActiveOnly(ch, act) ==
    IF act < Len(ch) /\ ch[act + 1] # None
    THEN <<Ev("compute_layout_main", ch[act + 1][1].view, "")>>
    ELSE <<>>

\* Tab::compute_layout: every present child, in slot order (self.active is
\* not read).
TabComputeLayout(ch, act) ==
    LET present == SelectSeq(ch, IsSome)
    IN  [i \in 1..Len(present) |-> Ev("compute_layout_main", present[i][1].view, "")]

ComputeLayout ==
    /\ ~crashed
    /\ trace' = TabComputeLayout(children, active)
    /\ last' = "compute_layout"
    /\ ret' = "unit"
    /\ UNCHANGED <<prev_hash_run, queue, children, active, disposals, crashed, current>>

\* ActiveChild that falls back to the first slot when the index is out of range.
ActiveChildOrFirst(ch, act) ==
    IF act < Len(ch) /\ ch[act + 1] # None THEN Some(ch[act + 1][1].view)
    ELSE IF Len(ch) > 0 /\ ch[1] # None THEN Some(ch[1][1].view)
    ELSE None

\* self.children.get_mut(self.active) matched against Some(Some((child, _)))
ActiveChild(ch, act) ==
    IF act < Len(ch) /\ ch[act + 1] # None THEN Some(ch[act + 1][1].view) ELSE None

BoolText(b) == IF b THEN "true" ELSE "false"

\* Tab::event: `child_says` is what the child's event_main returns.
TabEvent(ch, act, child_says) ==
    LET child == ActiveChild(ch, act)
    IN  IF child # None
        THEN [ret |-> BoolText(child_says),
              trace |-> <<Ev("event_main", child[1], BoolText(child_says))>>]
        ELSE [ret |-> "false", trace |-> <<>>]

Event(child_says) ==
    /\ ~crashed
    /\ LET r == TabEvent(children, active, child_says)
       IN  /\ ret' = r.ret
           /\ trace' = r.trace
    /\ last' = "event"
    /\ UNCHANGED <<prev_hash_run, queue, children, active, disposals, crashed, current>>

\* TabPaint that paints every present child.
TabPaintAll(ch, act) ==
    LET present == SelectSeq(ch, IsSome)
    IN  [i \in 1..Len(present) |-> Ev("paint_main", present[i][1].view, "")]

\* Tab::paint
TabPaint(ch, act) ==
    LET child == ActiveChild(ch, act)
    IN  IF child # None THEN <<Ev("paint_main", child[1], "")>> ELSE <<>>

Paint ==
    /\ ~crashed
    /\ trace' = TabPaint(children, active)
    /\ last' = "paint"
    /\ ret' = "unit"
    /\ UNCHANGED <<prev_hash_run, queue, children, active, disposals, crashed, current>>

\* Tab::child(id): the slots are searched in order, asking each present
\* child for its id, up to the first that answers `id`; `i` is the slot the
\* search is at.
RECURSIVE TabChild(_, _, _)
TabChild(ch, id, i) ==
    IF i >= Len(ch) THEN [ret |-> "None", trace |-> <<>>]
    ELSE IF ch[i + 1] = None THEN TabChild(ch, id, i + 1)
    ELSE IF ch[i + 1][1].view = id
         THEN [ret |-> "Some", trace |-> <<Ev("id", id, "")>>]
         ELSE LET rest == TabChild(ch, id, i + 1)
              IN  [ret |-> rest.ret,
                   trace |-> <<Ev("id", ch[i + 1][1].view, "")>> \o rest.trace]

Child(id) ==
    /\ ~crashed
    /\ LET r == TabChild(children, id, 0)
       IN  /\ ret' = r.ret
           /\ trace' = r.trace
    /\ last' = "child"
    /\ UNCHANGED <<prev_hash_run, queue, children, active, disposals, crashed, current>>

Traverse ==
    \/ Update
    \/ Layout
    \/ ComputeLayout
    \/ \E child_says \in BOOLEAN : Event(child_says)
    \/ Paint
    \/ \E id \in 0..MaxViews : Child(id)

\* The program: the item source may yield any sequence, repeated keys included.
Next ==
    \/ \E items \in AllSources : SequenceEffect(items)
    \/ \E a \in 0..MaxActive : ActiveEffect(a)
    \/ ForeignState
    \/ Traverse

Spec == Init /\ [][Next]_vars

\* The program under the caller contract on keys: no two live items share one.
NextUnique ==
    \/ \E items \in UniqueSources : SequenceEffect(items)
    \/ \E a \in 0..MaxActive : ActiveEffect(a)
    \/ ForeignState
    \/ Traverse

SpecUnique == Init /\ [][NextUnique]_vars

\* ------------------------------------------------------------------ claims

\* The keys of the items the present children were built from, in slot order.
SlotKeys(ch) ==
    LET present == SelectSeq(ch, IsSome)
    IN  [i \in 1..Len(present) |-> key_fn(present[i][1].item)]

\* The view ids of the present children, in slot order.
SlotViews(ch) ==
    LET present == SelectSeq(ch, IsSome)
    IN  [i \in 1..Len(present) |-> present[i][1].view]

\* This step is Tab::update taking a payload of the given kind.
Delivers(kind) == queue # <<>> /\ Head(queue).kind = kind /\ queue' = Tail(queue)

Calls(tr, e) == SelectSeq(tr, LAMBDA c : c.e = e)

CalledOn(tr, e) == LET cs == Calls(tr, e) IN [i \in 1..Len(cs) |-> cs[i].v]

\* C1: round trip.  When the script of diff(P, C) is applied to a slot array
\* whose keys are P, the slot array's keys become C, in C's order and of C's
\* length, for all sequences P and C of unique keys.
C1_RoundTrip ==
    [][(/\ Delivers("Diff")
        /\ Head(queue).prev # None
        /\ SlotKeys(children) = Head(queue).prev[1]
        /\ Len(children) = Len(Head(queue).prev[1]))
       => (/\ ~crashed'
           /\ Len(children') = Len(Head(queue).run)
           /\ \A i \in 1..Len(children') : children'[i] # None
           /\ SlotKeys(children') = Head(queue).run)]_vars

\* C1 witness: [1, 2] became [2, 3]: the first child removed, the second
\* moved to the front, a third constructed behind it.
C1_Witness ==
    /\ last = "update_diff"
    /\ SlotKeys(children) = <<2, 3>>
    /\ SlotViews(children) = <<2, 3>>
    /\ Len(Calls(trace, "dispose")) = 1

\* C2 (as claimed): whenever Tab::update has finished applying an edit
\* script, the children's length and key order equal the keyed set the
\* sequence effect persisted last.
C2_MirrorsLatestKeyedSet ==
    (last = "update_diff" /\ ~crashed) =>
        /\ prev_hash_run # None
        /\ Len(children) = Len(prev_hash_run[1])
        /\ SlotKeys(children) = prev_hash_run[1]

\* C3: bootstrap.  The script of the effect's first run (no previous keyed
\* set) has no Removed and no Moved entry and one Added entry per current
\* item, in the items' order, with target indices 0, 1, ..., n-1.
C3_Bootstrap ==
    \A k \in 1..Len(queue) :
        (queue[k].kind = "Diff" /\ queue[k].prev = None) =>
            /\ queue[k].diff.removed = <<>>
            /\ queue[k].diff.moved = <<>>
            /\ Len(queue[k].diff.added) = Len(queue[k].items)
            /\ \A i \in 1..Len(queue[k].diff.added) :
                /\ queue[k].diff.added[i].at = i - 1
                /\ queue[k].diff.added[i].view = Some(queue[k].items[i])

\* C3 witness: the first run has just posted a script for two items.
C3_Witness ==
    /\ last = "sequence_effect"
    /\ queue[Len(queue)].prev = None
    /\ Len(queue[Len(queue)].diff.added) = 2

\* The slot at the active index holds a child.
HasActive == active < Len(children) /\ children[active + 1] # None

\* C4: event and paint reach only the child at the active index.  Tab::event
\* forwards to exactly children[active] and returns that child's answer,
\* Tab::paint paints exactly that child, and no other child is called.
C4_OnlyActiveChild ==
    /\ last = "event" =>
        /\ \A k \in 1..Len(trace) :
            /\ trace[k].e = "event_main"
            /\ HasActive
            /\ trace[k].v = children[active + 1][1].view
            /\ ret = trace[k].out
        /\ Len(trace) = IF HasActive THEN 1 ELSE 0
    /\ last = "paint" =>
        /\ \A k \in 1..Len(trace) :
            /\ trace[k].e = "paint_main"
            /\ HasActive
            /\ trace[k].v = children[active + 1][1].view
        /\ Len(trace) = IF HasActive THEN 1 ELSE 0

\* C4 witness: with two children and the second one active, paint has
\* painted one child.
C4_Witness ==
    /\ last = "paint"
    /\ Len(children) = 2
    /\ active = 1
    /\ Len(trace) = 1

\* C5: an active index that is out of range (or points at an empty slot) is
\* "no active child": Tab::event returns false without forwarding, Tab::paint
\* paints nothing, neither fails, and slot 0 is not substituted.
C5_OutOfRangeIsNoChild ==
    ~HasActive =>
        /\ last = "event" => (ret = "false" /\ trace = <<>> /\ ~crashed)
        /\ last = "paint" => (trace = <<>> /\ ~crashed)

\* C5 witness: an edit script has shrunk the slot array to one child below
\* the active index 1, and an event was then answered "not handled".
C5_Witness ==
    /\ last = "event"
    /\ active = 1
    /\ Len(children) = 1
    /\ \E v \in 1..Len(disposals) : disposals[v] = 1
    /\ ret = "false"

\* C6: when a layout traversal completes, the display of every present child
\* at slot i is Flex if i is the active index and None otherwise.
C6_VisibilityFollowsActive ==
    last = "layout" =>
        \A i \in 1..Len(children) :
            children[i] # None =>
                /\ \E k \in 1..Len(trace) :
                    trace[k].e = "display" /\ trace[k].v = children[i][1].view
                /\ \A k \in 1..Len(trace) :
                    (trace[k].e = "display" /\ trace[k].v = children[i][1].view)
                        => trace[k].out = (IF i - 1 = active THEN "Flex" ELSE "None")

\* C6 witness: a layout of two children with the second one active.
C6_Witness ==
    /\ last = "layout"
    /\ Len(children) = 2
    /\ active = 1
    /\ Len(Calls(trace, "display")) = 2

\* C7: the layout traversal calls the layout step, and the
\* compute-final-layout traversal the compute step, on every present child,
\* hidden ones included, in slot order.
C7_AllChildrenLaidOut ==
    /\ last = "layout" => CalledOn(trace, "layout_main") = SlotViews(children)
    /\ last = "compute_layout" =>
        /\ CalledOn(trace, "compute_layout_main") = SlotViews(children)
        /\ Len(trace) = Len(SlotViews(children))

\* C7 witness: a compute-final-layout traversal over two children, neither
\* of which is the active one.
C7_Witness ==
    /\ last = "compute_layout"
    /\ Len(children) = 2
    /\ active = 2
    /\ Len(trace) = 2

\* C8: a payload that is not a TabState is a no-op: Tab::update returns the
\* empty flag set, does not fail, leaves children and active as they were
\* and requests no layout.
C8_MismatchIsNoOp ==
    [][Delivers("Other") =>
        /\ ret' = "empty"
        /\ ~crashed'
        /\ children' = children
        /\ active' = active
        /\ disposals' = disposals
        /\ trace' = <<>>]_vars

\* C8 witness: a foreign payload was delivered to a Tab that has children
\* and a non-zero active index.
C8_Witness ==
    /\ last = "update_other"
    /\ Len(children) = 2
    /\ active = 1

\* The child is one the script about to be applied removes: the key it was
\* built for is absent from the keyed set the script leads to.
Removed(slot) == ~Contains(Head(queue).run, key_fn(slot[1].item))

\* C9: disposal on removal.  The disposal handle of a child whose key has
\* left the keyed set runs exactly once, inside the update that applies the
\* script, so the child is gone and disposed before any later traversal; no
\* handle runs a second time, and none runs outside such an update.
C9_DisposalOnRemoval ==
    [][/\ \A v \in 1..Len(disposals) : disposals'[v] <= 1
       /\ ~Delivers("Diff") => disposals' = disposals
       /\ Delivers("Diff") =>
            \A i \in 1..Len(children) :
                LET scope == children[i][1].scope
                IN  IF Removed(children[i])
                    THEN /\ disposals[scope] = 0
                         /\ disposals'[scope] = 1
                         /\ Len(SelectSeq(trace', LAMBDA c : c = Ev("dispose", scope, ""))) = 1
                         /\ \A j \in 1..Len(children') : children'[j] # children[i]
                    ELSE disposals'[scope] = disposals[scope]]_vars

\* C9 witness: an update has just disposed the first child and the one
\* remaining child is the second one constructed.
C9_Witness ==
    /\ last = "update_diff"
    /\ disposals = <<1, 0>>
    /\ SlotViews(children) = <<2>>
    /\ Calls(trace, "dispose") = <<Ev("dispose", 1, "")>>

\* C10: surviving children are preserved.  Across a reconciliation every key
\* in both keyed sets keeps its (view, disposer) pair, now at the key's new
\* position; it is neither built again nor disposed, and view_fn is called
\* once per Added entry.
C10_SurvivorsPreserved ==
    [][Delivers("Diff") =>
        /\ \A i \in 1..Len(children) :
            ~Removed(children[i]) =>
                /\ \E j \in 1..Len(children') :
                    /\ children'[j] = children[i]
                    /\ Head(queue).run[j] = key_fn(children[i][1].item)
                /\ \A k \in 1..Len(trace') :
                    trace'[k].e = "dispose" => trace'[k].v # children[i][1].scope
        /\ Len(Calls(trace', "view_fn")) = Len(Head(queue).diff.added)
        /\ Len(disposals') = Len(disposals) + Len(Head(queue).diff.added)
        /\ \A j \in 1..Len(children') :
            (\A i \in 1..Len(children) : children'[j] # children[i])
                => children'[j][1].view > Len(disposals)]_vars

\* C10 witness: the children built for keys [1, 2] have been reconciled to
\* [2, 1]: both survive, swapped, and nothing was built or disposed.
C10_Witness ==
    /\ last = "update_diff"
    /\ SlotKeys(children) = <<2, 1>>
    /\ SlotViews(children) = <<2, 1>>
    /\ disposals = <<0, 0>>
    /\ Calls(trace, "view_fn") = <<>>

\* No reconciliation panics.
NeverCrashes == ~crashed

\* The keys of the items are pairwise distinct.
UniqueKeys(items) ==
    \A i, j \in 1..Len(items) : key_fn(items[i]) = key_fn(items[j]) => i = j

\* C11 (as claimed): duplicate keys are detected and fail fast.  A run of the
\* sequence effect whose items repeat a key reports a failure and posts no
\* edit script, on the first run or any later one.
C11_DuplicatesFailFast ==
    \A k \in 1..Len(queue) :
        queue[k].kind = "Diff" => UniqueKeys(queue[k].items)

\* C12 (as claimed): between traversals at most one edit-script payload and
\* at most one active-index payload are pending for the Tab.
C12_OnePendingPerKind ==
    /\ Len(SelectSeq(queue, LAMBDA p : p.kind = "Diff")) <= 1
    /\ Len(SelectSeq(queue, LAMBDA p : p.kind = "Active")) <= 1

\* C13: every accepted payload triggers re-layout.  After Tab::update has
\* applied an edit script or an active index it has requested layout for the
\* Tab's own id and then for every child present, and returns LAYOUT, also
\* when the script is empty or the index repeats the stored one.
C13_AcceptedRequestsLayout ==
    (last \in {"update_diff", "update_active"} /\ ~crashed) =>
        /\ ret = "LAYOUT"
        /\ CalledOn(trace, "request_layout") = <<TabId>> \o SlotViews(children)

\* C13 witness: an empty edit script was applied to two children: nothing
\* built, nothing disposed, three layout requests.
C13_Witness ==
    /\ last = "update_diff"
    /\ Len(children) = 2
    /\ Calls(trace, "view_fn") = <<>>
    /\ Calls(trace, "dispose") = <<>>
    /\ Len(Calls(trace, "request_layout")) = 3

\* The positions in the trace of the calls `e` made on child v.
At(tr, e, v) == {k \in 1..Len(tr) : tr[k].e = e /\ tr[k].v = v}

\* C14 (as claimed): in the layout traversal each child's layout step is
\* invoked first and its display is set afterwards.
C14_LayoutThenDisplay ==
    last = "layout" =>
        \A i \in 1..Len(children) :
            children[i] # None =>
                \A l \in At(trace, "layout_main", children[i][1].view) :
                    \A d \in At(trace, "display", children[i][1].view) : l < d

\* C14 (amended): in the layout traversal each child's display is set first
\* and its layout step is invoked right after it, for all children alike.
C14_DisplayThenLayout ==
    last = "layout" =>
        /\ Len(trace) = 2 * Len(SlotViews(children))
        /\ \A i \in 1..Len(SlotViews(children)) :
            /\ trace[2 * i - 1].e = "display"
            /\ trace[2 * i - 1].v = SlotViews(children)[i]
            /\ trace[2 * i].e = "layout_main"
            /\ trace[2 * i].v = SlotViews(children)[i]

\* C14 witness: a layout of two children with the first one active.
C14_Witness ==
    /\ last = "layout"
    /\ Len(children) = 2
    /\ active = 0
    /\ Len(trace) = 4

\* C15: on every run but the first, with unique keys, each Added entry
\* carries the item whose key stands at the entry's target position in the
\* current keyed set; no entry is left empty, no item goes to two entries,
\* and every take is of an item that is there.
C15_AddedCarriesItem ==
    \A k \in 1..Len(queue) :
        (queue[k].kind = "Diff" /\ queue[k].prev # None) =>
            LET added == queue[k].diff.added
            IN  /\ \A i \in 1..Len(added) :
                    /\ added[i].at < Len(queue[k].items)
                    /\ added[i].view = Some(queue[k].items[added[i].at + 1])
                    /\ key_fn(added[i].view[1]) = queue[k].run[added[i].at + 1]
                /\ \A i, j \in 1..Len(added) : added[i].at = added[j].at => i = j

\* C15 witness: a later run has posted a script that adds an item at
\* target index 1, behind a key that stays.
C15_Witness ==
    /\ last = "sequence_effect"
    /\ queue[Len(queue)].prev # None
    /\ Len(queue[Len(queue)].diff.added) = 1
    /\ queue[Len(queue)].diff.added[1].at = 1

\* C19 (as claimed): on the first run the i-th Added entry's item has the
\* key at position i of the keyed set the run persists, and there are as
\* many Added entries as that set has keys.
C19_BootstrapMatchesKeyedSet ==
    \A k \in 1..Len(queue) :
        (queue[k].kind = "Diff" /\ queue[k].prev = None) =>
            /\ Len(queue[k].diff.added) = Len(queue[k].run)
            /\ \A i \in 1..Len(queue[k].diff.added) :
                i <= Len(queue[k].run)
                    => key_fn(queue[k].diff.added[i].view[1]) = queue[k].run[i]

\* C16: the child slots and the active index change only inside Tab::update:
\* a step of layout, compute_layout, event, paint, child lookup or either
\* effect leaves the slot array (length, order, instances) and active as
\* they were.
C16_OnlyUpdateMutates ==
    [][last' \in {"layout", "compute_layout", "event", "paint", "child",
                  "sequence_effect", "active_effect"}
       => /\ children' = children
          /\ active' = active]_vars

\* C16 witness: a child lookup has found the child of the second slot
\* while the active index is out of range.
C16_Witness ==
    /\ last = "child"
    /\ ret = "Some"
    /\ Len(trace) = 2
    /\ Len(children) = 2
    /\ active = 2

\* C17: each run of an effect emits exactly one payload, to the Tab's own id
\* and to no other: a run of the sequence effect appends one Diff payload to
\* the pending ones, whether or not its script is empty, and a run of the
\* active-index effect appends one Active payload holding the value the
\* selector returned in that run.
C17_OnePayloadPerRun ==
    [][/\ last' = "sequence_effect" =>
            /\ Len(queue') = Len(queue) + 1
            /\ SubSeq(queue', 1, Len(queue)) = queue
            /\ queue'[Len(queue')].kind = "Diff"
            /\ CalledOn(trace', "update_state") = <<TabId>>
            /\ Calls(trace', "update_state")[1].out = "Diff"
       /\ last' = "active_effect" =>
            /\ Len(queue') = Len(queue) + 1
            /\ SubSeq(queue', 1, Len(queue)) = queue
            /\ queue'[Len(queue')].kind = "Active"
            /\ CalledOn(trace', "update_state") = <<TabId>>
            /\ Calls(trace', "update_state")[1].out = "Active"
            /\ Len(Calls(trace', "active_fn")) = 1
            /\ ToString(queue'[Len(queue')].active) = Calls(trace', "active_fn")[1].out]_vars

\* C17 witness: a run of the sequence effect has posted an empty script
\* behind a pending Active payload.
C17_Witness ==
    /\ last = "sequence_effect"
    /\ Len(queue) = 2
    /\ queue[1].kind = "Active"
    /\ queue[1].active = 2
    /\ queue[2].kind = "Diff"
    /\ queue[2].prev # None
    /\ queue[2].diff = DiffDefault

\* C18: active starts at 0 and changes only when an Active payload is
\* applied, to that payload's value; applying a Diff payload leaves active
\* as it was even when the slots shrink below it, and applying an Active
\* payload leaves the slot array as it was.
C18_ActiveFollowsPayloads ==
    /\ active = 0
    /\ [][/\ Delivers("Active") =>
                /\ active' = Head(queue).active
                /\ children' = children
                /\ disposals' = disposals
          /\ ~Delivers("Active") => active' = active]_vars

\* C18 witness: a script has just shrunk the slots to one, disposing of a
\* child, while the active index stays at 2.
C18_Witness ==
    /\ last = "update_diff"
    /\ active = 2
    /\ Len(children) = 1
    /\ \E v \in 1..Len(disposals) : disposals[v] = 1

\* The ambient context id in force when the k-th call of a handler's trace
\* is made, the handler having started under `cur`.
ContextAt(cur, tr, k) ==
    AmbientAfter([current |-> cur, saved |-> <<>>], SubSeq(tr, 1, k - 1)).current

ContextCalls(tr) ==
    SelectSeq(tr, LAMBDA c : c.e \in {"save", "set_current", "restore"})

\* C20: while a Diff payload is applied (children built, scopes disposed)
\* the current context is the Tab's child context, whose id is the Tab's
\* id; the context is saved once and restored once, so that the layout
\* requests that follow and the caller see the context update was called
\* under; Active and mismatched payloads make no context call.
C20_AmbientContext ==
    [][/\ Delivers("Diff") =>
            /\ current' = current
            /\ Len(Calls(trace', "save")) = 1
            /\ Len(Calls(trace', "restore")) = 1
            /\ \A k \in 1..Len(trace') :
                /\ (trace'[k].e \in {"view_fn", "dispose"}
                      => ContextAt(current, trace', k) = TabId)
                /\ (trace'[k].e = "request_layout"
                      => ContextAt(current, trace', k) = current)
       /\ (Delivers("Active") \/ Delivers("Other")) =>
            /\ current' = current
            /\ ContextCalls(trace') = <<>>]_vars

\* C20 witness: a script that disposed of one child and built another has
\* been applied and the context is the one update was called under.
C20_Witness ==
    /\ last = "update_diff"
    /\ current = OuterId
    /\ Calls(trace, "view_fn") # <<>>
    /\ Calls(trace, "dispose") # <<>>
    /\ Len(Calls(trace, "restore")) = 1
====
